---- MODULE Spec2Model ----
(***************************************************************************)
(* Model of the room server of witness (party/server.ts, here              *)
(* src/unnamed/part_000) together with the shared helpers and the message  *)
(* schema of src/shared/game.ts.                                           *)
(*                                                                         *)
(* One room is one Server object: `state` (GameState), `connections` (the  *)
(* live connection set) and `connectionIdToClientId` (the bindings).  The  *)
(* handlers onConnect, onClose and onMessage run to completion one at a    *)
(* time; each is one action, including every send it performs.             *)
(***************************************************************************)
EXTENDS Integers, Sequences, FiniteSets, TLC

(* ----- bounds of the model ----- *)
MaxConns == 2      \* connection ids 1..MaxConns
MaxIds == 2        \* how many of AllIds clients may use as clientId
MaxClock == 2      \* Date.now() ranges over 1..MaxClock
MaxCount == 1      \* in-range counts 0..MaxCount offered to setRoleCount
RngDen == 6        \* rng() returns k / RngDen for k in 0..RngDen-1
MaxNames == 1      \* how many entries of `first` the name generator draws from
MaxQuota == 2      \* counts 0..MaxQuota per role in the quotas given to buildDeck
MaxLen == 3        \* longest list given to shuffle
MaxTwinIds == 3    \* how many of AllIds join when the room is run twice

(* ----- values ----- *)
Null == "<null>"          \* JS null (hostId) / no binding
NoRole == "<undefined>"   \* roleKey: undefined
NoTime == 0               \* assignedAt: undefined (Date.now() is >= 1)

AllIds == <<"p1", "2", "10", "p4", "p5", "p6">>
ClientIds == {AllIds[i] : i \in 1..MaxIds}
Conns == 1..MaxConns
\* generateOldTimeyName: `${f} ${l}` for a random f of first and l of last;
\* the model draws f among the first MaxNames entries and keeps l fixed
first == <<"agnes", "beatrice", "clement", "dorothy">>
last == <<"abbott">>
Names == {first[i] \o " " \o last[1] : i \in 1..MaxNames}

(* src/shared/game.ts: roleKeys, defaultRoleConfig *)
roleKeys == <<"A", "B", "C", "D">>
RoleKeySet == {roleKeys[i] : i \in 1..Len(roleKeys)}
defaultRoleConfig == [k \in RoleKeySet |-> 0]

VARIABLES
    state,                  \* this.state: hostId, status, players, roleConfig, assignedAt
    playerKeys,             \* creation order of the keys of state.players
    connections,            \* this.connections
    connectionIdToClientId, \* this.connectionIdToClientId (Null = no entry)
    clock,                  \* the value Date.now() returns
    outbox,                 \* per connection, the messages conn.send got in the last handler
    event,                  \* the handler call that ran last and its argument
    throwing,               \* the connections whose conn.send throws
    dealt,                  \* the participants that existed at the last successful deal
    dealtDeck,              \* `shuffled` of the handler call that ran last (<<>>: no deal)
    calc,                   \* a call of a helper of game.ts: its arguments and result
    twin                    \* a second Server object given the same handler calls

vars == <<state, playerKeys, connections, connectionIdToClientId, clock,
          outbox, event, throwing, dealt, dealtDeck, calc, twin>>

(* ----- JS object key order ----- *)
\* integer-like keys ("2", "10") are array indices: Object.keys lists them
\* first in ascending numeric order, then the other keys in creation order.
IndexOf(id) == CASE id = "2" -> 2 [] id = "10" -> 10 [] OTHER -> -1

IsIndexKey(id) == IndexOf(id) >= 0

\* position of id in seq (seq has no duplicates)
PosIn(seq, id) == CHOOSE i \in 1..Len(seq) : seq[i] = id

\* does key a come before key b in Object.keys of an object created in order seq
KeyBefore(seq, a, b) ==
    IF IsIndexKey(a) /\ IsIndexKey(b) THEN IndexOf(a) < IndexOf(b)
    ELSE IF IsIndexKey(a) THEN TRUE
    ELSE IF IsIndexKey(b) THEN FALSE
    ELSE PosIn(seq, a) < PosIn(seq, b)

ObjectKeys(seq) ==
    LET ids == {seq[i] : i \in 1..Len(seq)}
        rank(a) == Cardinality({b \in ids : b # a /\ KeyBefore(seq, b, a)}) + 1
    IN [i \in 1..Len(seq) |-> CHOOSE a \in ids : rank(a) = i]

(* ----- src/shared/game.ts: utility helpers ----- *)
\* the loop that pushes once more than the count
Repeat_OneMore(x, n) == [i \in 1..(n + 1) |-> x]

Repeat(x, n) == [i \in 1..n |-> x]

RECURSIVE buildDeckFrom(_, _)
buildDeckFrom(config, k) ==
    IF k > Len(roleKeys) THEN <<>>
    ELSE Repeat(roleKeys[k], config[roleKeys[k]]) \o buildDeckFrom(config, k + 1)

buildDeck(config) == buildDeckFrom(config, 1)

RECURSIVE totalRolesFrom(_, _)
totalRolesFrom(config, k) ==
    IF k > Len(roleKeys) THEN 0
    ELSE config[roleKeys[k]] + totalRolesFrom(config, k + 1)

totalRoles(config) == totalRolesFrom(config, 1)

\* the sequences of values rng() can return while shuffling n elements,
\* each value written as its numerator over RngDen
RngDraws(n) == [1..(IF n > 1 THEN n - 1 ELSE 0) -> 0..(RngDen - 1)]

\* the swap written as two assignments, the second reading the overwritten slot
Swap_LostWrite(arr, i, j) == [arr EXCEPT ![i] = arr[j]]

Swap(arr, i, j) == [arr EXCEPT ![i] = arr[j], ![j] = arr[i]]

\* the choice that leaves out position i itself: floor(r * i)
chosenIndex_Exclusive(r, i) == (r * i) \div RngDen

\* Math.floor(rng() * (i + 1)) for rng() = r / RngDen
chosenIndex(r, i) == (r * (i + 1)) \div RngDen

\* i is the code's 0-based loop index, used the number of rng() calls so far
RECURSIVE shuffleFrom(_, _, _, _)
shuffleFrom(arr, i, draws, used) ==
    IF i <= 0 THEN arr
    ELSE LET j == chosenIndex(draws[used + 1], i)
         IN shuffleFrom(Swap(arr, i + 1, j + 1), i - 1, draws, used + 1)

shuffle(list, draws) == shuffleFrom(list, Len(list) - 1, draws, 0)

\* a shuffle that swaps in the caller's list (const arr = list)
shuffleCall_InPlace(list, draws) ==
    [returned |-> shuffle(list, draws), list |-> shuffle(list, draws)]

\* a call of shuffle: what it returns and what the caller's list holds after
\* it; const arr = [...list] is a fresh array, the swaps write to arr only
shuffleCall(list, draws) == [returned |-> shuffle(list, draws), list |-> list]

(* ----- src/shared/game.ts: messaging schemas ----- *)
Has(obj, field) == field \in DOMAIN obj

LongName == "a name of 65 characters"

\* lengths of the strings the model uses: the empty string, the one string
\* longer than 64, and the others (all between 1 and 64 characters)
StrLen(s) == CASE s = "" -> 0 [] s = LongName -> 65 [] OTHER -> 3

\* a role key schema with a fifth key
roleKeySchema_FiveKeys(v) == v \in {"A", "B", "C", "D", "Z"}

\* a role key schema that accepts any string
roleKeySchema_Any(v) == TRUE

roleKeySchema(v) == v = "A" \/ v = "B" \/ v = "C" \/ v = "D"

SchemaAccepts(obj) ==
    /\ Has(obj, "type")
    /\ CASE obj.type = "join" ->
              /\ Has(obj, "name") /\ StrLen(obj.name) <= 64
              /\ Has(obj, "clientId") /\ StrLen(obj.clientId) >= 1
         [] obj.type = "setName" -> Has(obj, "name") /\ StrLen(obj.name) <= 64
         [] obj.type = "setReady" -> Has(obj, "ready") /\ obj.ready \in BOOLEAN
         [] obj.type = "setRoleCount" ->
              /\ Has(obj, "roleKey") /\ roleKeySchema(obj.roleKey)
              /\ Has(obj, "count") /\ obj.count \in Int
              /\ obj.count >= 0 /\ obj.count <= 99
         [] obj.type \in {"assignRoles", "reset", "requestState"} -> TRUE
         [] OTHER -> FALSE

\* clientMessageSchema.parse: throws, or returns the object (no input of the
\* model carries keys the schema would strip)
clientMessageSchema(obj) ==
    IF SchemaAccepts(obj) THEN [ok |-> TRUE, msg |-> obj] ELSE [ok |-> FALSE]

\* raw text is either not JSON at all or the JSON text of an object
NotJson == [text |-> "not json"]
Json(obj) == [json |-> obj]
JSONParse(raw) ==
    IF Has(raw, "json") THEN [ok |-> TRUE, value |-> raw.json] ELSE [ok |-> FALSE]

(* ----- the inputs the model offers ----- *)
JoinInputs ==
    {[type |-> "join", clientId |-> id, name |-> "bob"] : id \in ClientIds}
    \cup {[type |-> "join", clientId |-> AllIds[1]], [type |-> "join", name |-> "bob"]}

SetRoleCountInputs ==
    {[type |-> "setRoleCount", roleKey |-> k, count |-> n] :
        k \in {"A", "B"}, n \in 0..MaxCount}
    \cup {[type |-> "setRoleCount", roleKey |-> "A", count |-> 150],
          [type |-> "setRoleCount", roleKey |-> "Z", count |-> 1]}

OtherInputs ==
    {[type |-> t] : t \in {"assignRoles", "reset", "requestState"}}
    \cup {[type |-> "setName", name |-> "bob"], [type |-> "setReady", ready |-> TRUE]}

RawInputs ==
    {NotJson} \cup {Json(obj) : obj \in JoinInputs \cup SetRoleCountInputs \cup OtherInputs}

(* ----- src/unnamed/part_000: Server helpers ----- *)
StateMessage(st) == [type |-> "state", state |-> st]
ErrorMessage(m) == [type |-> "error", message |-> m]

NoMessages == [c \in Conns |-> <<>>]

\* send(conn, data): conn.send gets the message, or it throws and the catch
\* logs and swallows the exception
send(box, conn, data) ==
    IF conn \in throwing THEN box ELSE [box EXCEPT ![conn] = Append(@, data)]

RECURSIVE sendAll(_, _, _)
sendAll(box, conn, msgs) ==
    IF msgs = <<>> THEN box
    ELSE sendAll(send(box, conn, Head(msgs)), conn, Tail(msgs))

Falsy(s) == s = Null \/ s = ""

\* the copy that is not redacted when the viewer is the host
personalizeStateFor_HostSeesAll(st, viewerClientId) ==
    [st EXCEPT !.players =
        [id \in DOMAIN st.players |->
            IF Falsy(viewerClientId)
               \/ (id # viewerClientId /\ viewerClientId # st.hostId)
            THEN [st.players[id] EXCEPT !.roleKey = NoRole]
            ELSE st.players[id]]]

\* the copy without the redaction
personalizeStateFor_NoRedact(st, viewerClientId) == st

personalizeStateFor(st, viewerClientId) ==
    [st EXCEPT !.players =
        [id \in DOMAIN st.players |->
            IF Falsy(viewerClientId) \/ id # viewerClientId
            THEN [st.players[id] EXCEPT !.roleKey = NoRole]
            ELSE st.players[id]]]

sendStateTo(box, st, bind, conn) ==
    send(box, conn, StateMessage(personalizeStateFor(st, bind[conn])))

\* a broadcast that skips the connections that have not joined
broadcastState_BoundOnly(box, st, conns, bind) ==
    [c \in Conns |-> IF c \in conns /\ ~Falsy(bind[c])
                     THEN sendStateTo(box, st, bind, c)[c] ELSE box[c]]

\* a broadcast without the try/catch of send: the first throw ends the loop,
\* here before any connection was served
broadcastState_Aborts(box, st, conns, bind) ==
    [c \in Conns |-> IF c \in conns /\ conns \cap throwing = {}
                     THEN sendStateTo(box, st, bind, c)[c] ELSE box[c]]

\* one sendStateTo per live connection; each connection gets one message, so
\* the iteration order of the Set does not show in any connection's inbox
broadcastState(box, st, conns, bind) ==
    [c \in Conns |-> IF c \in conns THEN sendStateTo(box, st, bind, c)[c] ELSE box[c]]

\* getSenderPlayer: the error it sends (if any) and whether a player came back
getSenderPlayer(conn) ==
    LET clientId == connectionIdToClientId[conn] IN
    IF Falsy(clientId)
    THEN [sent |-> <<ErrorMessage("please join first")>>, found |-> FALSE, id |-> clientId]
    ELSE [sent |-> <<>>, found |-> clientId \in DOMAIN state.players, id |-> clientId]

\* the authorization that lets a sender without a player record through
SenderIsHost_MissingPlayerPasses(sp) == ~sp.found \/ state.players[sp.id].isHost

\* the authorization that forgets the isHost test
SenderIsHost_AnyPlayer(sp) == sp.found

SenderIsHost(sp) == sp.found /\ state.players[sp.id].isHost

\* obj[key] = value: the key is added when the object does not have it
SetKey(obj, key, value) ==
    [k \in DOMAIN obj \cup {key} |-> IF k = key THEN value ELSE obj[k]]

Min(a, b) == IF a < b THEN a ELSE b
Max(a, b) == IF a > b THEN a ELSE b

\* playerIds.map(...).sort((a, b) => a.joinedAt - b.joinedAt): a stable sort
SortByJoinedAt(ids, players) ==
    LET idSet == {ids[i] : i \in 1..Len(ids)}
        before(b, a) == \/ players[b].joinedAt < players[a].joinedAt
                        \/ /\ players[b].joinedAt = players[a].joinedAt
                           /\ PosIn(ids, b) < PosIn(ids, a)
        rank(a) == Cardinality({b \in idSet : before(b, a)}) + 1
    IN [i \in 1..Len(ids) |-> CHOOSE a \in idSet : rank(a) = i]

(* ----- src/unnamed/part_000: constructor ----- *)
NoCalc == [op |-> "none"]

ServerInit ==
    /\ state = [hostId |-> Null, status |-> "lobby", players |-> <<>>,
                roleConfig |-> defaultRoleConfig, assignedAt |-> NoTime]
    /\ playerKeys = <<>>
    /\ connections = {}
    /\ connectionIdToClientId = [c \in Conns |-> Null]
    /\ clock = 1
    /\ outbox = NoMessages
    /\ event = [handler |-> "constructor"]
    /\ throwing = {}
    /\ dealt = {}
    /\ dealtDeck = <<>>
    /\ twin = [state |-> state, playerKeys |-> playerKeys, connections |-> connections,
               bind |-> connectionIdToClientId, outbox |-> outbox]

Init == ServerInit /\ calc = NoCalc

(* ----- src/unnamed/part_000: onConnect, onClose ----- *)
\* an onClose that keeps the binding of the closed connection
OnClose_KeepsBinding(conn) ==
    /\ conn \in connections
    /\ connections' = connections \ {conn}
    /\ outbox' = NoMessages
    /\ event' = [handler |-> "onClose", conn |-> conn]
    /\ throwing' = throwing \ {conn}
    /\ dealtDeck' = <<>>
    /\ UNCHANGED <<state, playerKeys, connectionIdToClientId, clock, dealt, calc>>

\* an onClose that evicts the participant of the closed connection
OnClose_Evicts(conn) ==
    /\ conn \in connections
    /\ connections' = connections \ {conn}
    /\ connectionIdToClientId' = [connectionIdToClientId EXCEPT ![conn] = Null]
    /\ outbox' = NoMessages
    /\ event' = [handler |-> "onClose", conn |-> conn]
    /\ throwing' = throwing \ {conn}
    /\ state' = [state EXCEPT !.players =
                    [p \in DOMAIN state.players \ {connectionIdToClientId[conn]} |->
                        state.players[p]]]
    /\ playerKeys' = SelectSeq(playerKeys, LAMBDA p : p # connectionIdToClientId[conn])
    /\ dealtDeck' = <<>>
    /\ UNCHANGED <<clock, dealt, calc>>

\* an onClose that hands the host role to another participant when the
\* host's connection closes
OnClose_Reelects(conn) ==
    /\ conn \in connections
    /\ connections' = connections \ {conn}
    /\ connectionIdToClientId' = [connectionIdToClientId EXCEPT ![conn] = Null]
    /\ outbox' = NoMessages
    /\ event' = [handler |-> "onClose", conn |-> conn]
    /\ throwing' = throwing \ {conn}
    /\ state' =
          LET old == connectionIdToClientId[conn]
              others == DOMAIN state.players \ {old}
          IN IF old # state.hostId \/ others = {} THEN state
             ELSE LET next == CHOOSE p \in others : TRUE
                  IN [state EXCEPT !.hostId = next,
                                   !.players[old].isHost = FALSE,
                                   !.players[next].isHost = TRUE]
    /\ dealtDeck' = <<>>
    /\ UNCHANGED <<playerKeys, clock, dealt, calc>>

OnConnect(conn) ==
    /\ conn \notin connections
    /\ connections' = connections \cup {conn}
    /\ outbox' = send(NoMessages, conn, StateMessage(personalizeStateFor(state, Null)))
    /\ event' = [handler |-> "onConnect", conn |-> conn]
    /\ dealtDeck' = <<>>
    /\ UNCHANGED <<state, playerKeys, connectionIdToClientId, clock, throwing, dealt, calc>>

OnClose(conn) ==
    /\ conn \in connections
    /\ connections' = connections \ {conn}
    /\ connectionIdToClientId' =
          IF ~Falsy(connectionIdToClientId[conn])
          THEN [connectionIdToClientId EXCEPT ![conn] = Null]
          ELSE connectionIdToClientId
    /\ outbox' = NoMessages
    /\ event' = [handler |-> "onClose", conn |-> conn]
    /\ throwing' = throwing \ {conn}
    /\ dealtDeck' = <<>>
    /\ UNCHANGED <<state, playerKeys, clock, dealt, calc>>

\* time passes between handler calls: Date.now() never decreases, and two
\* handler calls may read the same value
Tick ==
    /\ clock < MaxClock
    /\ clock' = clock + 1
    /\ UNCHANGED <<state, playerKeys, connections, connectionIdToClientId,
                   outbox, event, throwing, dealt, dealtDeck, calc>>

\* the transport of a live connection fails before its onClose is delivered:
\* from now on conn.send throws for it
Break(conn) ==
    /\ conn \in connections \ throwing
    /\ throwing' = throwing \cup {conn}
    /\ UNCHANGED <<state, playerKeys, connections, connectionIdToClientId,
                   clock, outbox, event, dealt, dealtDeck, calc>>

(* ----- src/unnamed/part_000: onMessage ----- *)
\* the handler returns having sent msgs to the sender and changed nothing
Returns(sender, msgs) ==
    /\ outbox' = sendAll(NoMessages, sender, msgs)
    /\ dealtDeck' = <<>>
    /\ UNCHANGED <<state, playerKeys, connectionIdToClientId, dealt>>

\* a new participant named as the join message asks (every join of the
\* model that carries a name carries "bob")
NewPlayer_ClientName(id, name, isFirst, now) ==
    [id |-> id, name |-> "bob", isHost |-> isFirst, joinedAt |-> now, roleKey |-> NoRole]

\* a new participant that starts with a role
NewPlayer_Dealt(id, name, isFirst, now) ==
    [id |-> id, name |-> name, isHost |-> isFirst, joinedAt |-> now, roleKey |-> "A"]

\* every new participant made host
NewPlayer_AlwaysHost(id, name, isFirst, now) ==
    [id |-> id, name |-> name, isHost |-> TRUE, joinedAt |-> now, roleKey |-> NoRole]

NewPlayer(id, name, isFirst, now) ==
    [id |-> id, name |-> name, isHost |-> isFirst, joinedAt |-> now, roleKey |-> NoRole]

\* the lookup that always finds a record, so that join never creates one
Existing_Always(clientId) == TRUE

\* the lookup that never finds the record, so that join rebuilds it
Existing_Never(clientId) == FALSE

\* const existing = this.state.players[msg.clientId]; if (existing) ...
Existing(clientId) == clientId \in DOMAIN state.players

\* the first-participant test that never succeeds
IsFirst_Never(keys) == FALSE

\* Object.keys(this.state.players).length === 0
IsFirst(keys) == Len(ObjectKeys(keys)) = 0

\* a binding that keeps the first id a connection joined with
Bind_FirstWins(map, conn, clientId) ==
    IF map[conn] = Null THEN [map EXCEPT ![conn] = clientId] ELSE map

\* this.connectionIdToClientId.set(sender.id, msg.clientId)
Bind(map, conn, clientId) == [map EXCEPT ![conn] = clientId]

HandleJoin(msg, sender) ==
    IF ~Has(msg, "clientId") \/ Falsy(msg.clientId)
    THEN Returns(sender, <<ErrorMessage("missing clientId")>>)
    ELSE
      LET bind == Bind(connectionIdToClientId, sender, msg.clientId)
          now == clock
          existing == Existing(msg.clientId)
          isFirst == IsFirst(playerKeys)
      IN \E name \in (IF existing THEN {"unused"} ELSE Names) :
           LET newState ==
                 IF existing THEN state
                 ELSE [state EXCEPT
                         !.players =
                            [id \in DOMAIN state.players \cup {msg.clientId} |->
                               IF id = msg.clientId
                               THEN NewPlayer(msg.clientId, name, isFirst, now)
                               ELSE state.players[id]],
                         !.hostId = IF isFirst THEN msg.clientId ELSE @]
           IN /\ connectionIdToClientId' = bind
              /\ state' = newState
              /\ playerKeys' = IF existing THEN playerKeys
                               ELSE Append(playerKeys, msg.clientId)
              /\ outbox' = broadcastState(NoMessages, newState, connections, bind)
              /\ dealtDeck' = <<>>
              /\ UNCHANGED dealt

HandleSetRoleCount(msg, sender) ==
    LET sp == getSenderPlayer(sender) IN
    IF ~SenderIsHost(sp)
    THEN Returns(sender, sp.sent \o <<ErrorMessage("only host can edit roles")>>)
    ELSE IF ~Has(msg, "roleKey") \/ ~Has(msg, "count")
    THEN Returns(sender, sp.sent)
    ELSE
      LET newState ==
            [state EXCEPT !.roleConfig = SetKey(@, msg.roleKey, Max(0, Min(99, msg.count)))]
      IN /\ state' = newState
         /\ outbox' = broadcastState(sendAll(NoMessages, sender, sp.sent), newState,
                                     connections, connectionIdToClientId)
         /\ dealtDeck' = <<>>
         /\ UNCHANGED <<playerKeys, connectionIdToClientId, dealt>>

\* the comparison that only refuses a deck that is too long
DeckFits_AtMost(deck, playerIds) == Len(deck) <= Len(playerIds)

\* deck.length !== playerIds.length is the failure
DeckFits(deck, playerIds) == Len(deck) = Len(playerIds)

\* shuffled[i]: reading past the end of a JS array gives undefined
At(arr, i) == IF i \in 1..Len(arr) THEN arr[i] ELSE NoRole

HandleAssignRoles(sender) ==
    LET sp == getSenderPlayer(sender)
        playerIds == ObjectKeys(playerKeys)
        deck == buildDeck(state.roleConfig)
    IN
    IF ~SenderIsHost(sp)
    THEN Returns(sender, sp.sent \o <<ErrorMessage("only host can assign roles")>>)
    ELSE IF ~DeckFits(deck, playerIds)
    THEN Returns(sender, sp.sent \o
                   <<ErrorMessage("role count must equal number of players")>>)
    ELSE
      \* (\E over a one-element set names a value that is computed once)
      \E orderedPlayers \in {SortByJoinedAt(playerIds, state.players)} :
      \E draws \in RngDraws(Len(deck)) :
      \E shuffled \in {shuffle(deck, draws)} :
      \E newState \in {
              [state EXCEPT
                 !.players = [id \in DOMAIN state.players |->
                                [state.players[id] EXCEPT
                                   !.roleKey = At(shuffled, PosIn(orderedPlayers, id))]],
                 !.status = "assigned",
                 !.assignedAt = clock]} :
           /\ state' = newState
           /\ dealt' = DOMAIN state.players
           /\ dealtDeck' = shuffled
           /\ outbox' = broadcastState(sendAll(NoMessages, sender, sp.sent), newState,
                                       connections, connectionIdToClientId)
           /\ UNCHANGED <<playerKeys, connectionIdToClientId>>

\* a reset that also clears the host flag
ClearRoles_DropHost(players) ==
    [id \in DOMAIN players |-> [players[id] EXCEPT !.roleKey = NoRole, !.isHost = FALSE]]

\* a reset that leaves the roles in place
ClearRoles_Keep(players) == players

\* for (const id of Object.keys(players)) players[id].roleKey = undefined
ClearRoles(players) ==
    [id \in DOMAIN players |-> [players[id] EXCEPT !.roleKey = NoRole]]

\* a reset that broadcasts before it clears the roles and the status
HandleReset_BroadcastFirst(sender) ==
    LET sp == getSenderPlayer(sender) IN
    IF ~SenderIsHost(sp)
    THEN Returns(sender, sp.sent \o <<ErrorMessage("only host can reset")>>)
    ELSE
      /\ state' = [state EXCEPT
                     !.players = ClearRoles(state.players),
                     !.status = "lobby",
                     !.assignedAt = NoTime]
      /\ outbox' = broadcastState(sendAll(NoMessages, sender, sp.sent), state,
                                  connections, connectionIdToClientId)
      /\ dealtDeck' = <<>>
      /\ UNCHANGED <<playerKeys, connectionIdToClientId, dealt>>

HandleReset(sender) ==
    LET sp == getSenderPlayer(sender) IN
    IF ~SenderIsHost(sp)
    THEN Returns(sender, sp.sent \o <<ErrorMessage("only host can reset")>>)
    ELSE
      LET newState ==
            [state EXCEPT
               !.players = ClearRoles(state.players),
               !.status = "lobby",
               !.assignedAt = NoTime]
      IN /\ state' = newState
         /\ outbox' = broadcastState(sendAll(NoMessages, sender, sp.sent), newState,
                                     connections, connectionIdToClientId)
         /\ dealtDeck' = <<>>
         /\ UNCHANGED <<playerKeys, connectionIdToClientId, dealt>>

\* a requestState answered with a broadcast
HandleRequestState_Broadcast(sender) ==
    /\ outbox' = broadcastState(NoMessages, state, connections, connectionIdToClientId)
    /\ dealtDeck' = <<>>
    /\ UNCHANGED <<state, playerKeys, connectionIdToClientId, dealt>>

HandleRequestState(sender) ==
    /\ outbox' = sendStateTo(NoMessages, state, connectionIdToClientId, sender)
    /\ dealtDeck' = <<>>
    /\ UNCHANGED <<state, playerKeys, connectionIdToClientId, dealt>>

\* partykit calls onMessage only for a connection between its onConnect and
\* its onClose
OnMessage(raw, sender) ==
    /\ sender \in connections
    /\ event' = [handler |-> "onMessage", conn |-> sender, raw |-> raw]
    /\ UNCHANGED <<connections, clock, throwing, calc>>
    /\ LET parsed == JSONParse(raw)
           checked == IF parsed.ok THEN clientMessageSchema(parsed.value)
                      ELSE [ok |-> FALSE]
       IN IF ~checked.ok
          THEN Returns(sender, <<ErrorMessage("invalid message")>>)
          ELSE LET msg == checked.msg IN
               CASE msg.type = "join" -> HandleJoin(msg, sender)
                 [] msg.type = "setRoleCount" -> HandleSetRoleCount(msg, sender)
                 [] msg.type = "assignRoles" -> HandleAssignRoles(sender)
                 [] msg.type = "reset" -> HandleReset(sender)
                 [] msg.type = "requestState" -> HandleRequestState(sender)
                 [] OTHER -> Returns(sender, <<ErrorMessage("unknown message type")>>)

Next ==
    \/ \E conn \in Conns : OnConnect(conn) /\ UNCHANGED twin
    \/ \E conn \in Conns : OnClose(conn) /\ UNCHANGED twin
    \/ \E raw \in RawInputs, sender \in Conns : OnMessage(raw, sender) /\ UNCHANGED twin
    \/ Tick /\ UNCHANGED twin

Spec == Init /\ [][Next]_vars

\* the room with transports that can fail: the commands the schema accepts,
\* at one clock value
SendFailInputs == {raw \in RawInputs : Has(raw, "json") /\ SchemaAccepts(raw.json)}

NextSendFail ==
    \/ \E conn \in Conns : OnConnect(conn) /\ UNCHANGED twin
    \/ \E conn \in Conns : OnClose(conn) /\ UNCHANGED twin
    \/ \E conn \in Conns : Break(conn) /\ UNCHANGED twin
    \/ \E raw \in SendFailInputs, sender \in Conns : OnMessage(raw, sender) /\ UNCHANGED twin

SpecSendFail == Init /\ [][NextSendFail]_vars

(* ----- src/shared/game.ts: the helpers called on their own ----- *)
Quotas == [RoleKeySet -> 0..MaxQuota]
Elems == {roleKeys[i] : i \in 1..Min(MaxLen, Len(roleKeys))}
Lists == UNION {[1..n -> Elems] : n \in 0..MaxLen}

\* the calls about to be made: buildDeck and totalRoles of a quota, shuffle
\* of a list with the values rng() will return
CalcInputs ==
    {[op |-> "quota", quota |-> q] : q \in Quotas}
    \cup UNION {{[op |-> "list", list |-> l, draws |-> d] : d \in RngDraws(Len(l))} :
                 l \in Lists}

InitCalc == ServerInit /\ calc \in CalcInputs

CallBuildDeck ==
    /\ calc.op = "quota"
    /\ calc' = [op |-> "buildDeck", quota |-> calc.quota,
                deck |-> buildDeck(calc.quota), total |-> totalRoles(calc.quota)]
    /\ UNCHANGED <<state, playerKeys, connections, connectionIdToClientId, clock,
                   outbox, event, throwing, dealt, dealtDeck, twin>>

CallShuffle ==
    /\ calc.op = "list"
    /\ LET call == shuffleCall(calc.list, calc.draws)
       IN calc' = [op |-> "shuffle", input |-> calc.list, draws |-> calc.draws,
                   list |-> call.list, returned |-> call.returned]
    /\ UNCHANGED <<state, playerKeys, connections, connectionIdToClientId, clock,
                   outbox, event, throwing, dealt, dealtDeck, twin>>

NextCalc == CallBuildDeck \/ CallShuffle

SpecCalc == InitCalc /\ [][NextCalc]_vars

(* ----- src/unnamed/part_000: the room run twice ----- *)
\* The handlers once more, as functions of a Server object w (its state,
\* the creation order of its players, its connections and bindings, and the
\* messages of its last handler call), so that a second object can be given
\* the calls the first one gets.  Date.now() and the failing transports are
\* the environment both objects share.
RunReturns(w, sender, msgs) == [w EXCEPT !.outbox = sendAll(NoMessages, sender, msgs)]

RunOnConnect(w, conn) ==
    [w EXCEPT !.connections = @ \cup {conn},
              !.outbox = send(NoMessages, conn,
                              StateMessage(personalizeStateFor(w.state, Null)))]

RunOnClose(w, conn) ==
    [w EXCEPT !.connections = @ \ {conn},
              !.bind = IF ~Falsy(w.bind[conn]) THEN [w.bind EXCEPT ![conn] = Null]
                       ELSE w.bind,
              !.outbox = NoMessages]

RunGetSenderPlayer(w, conn) ==
    LET clientId == w.bind[conn] IN
    IF Falsy(clientId)
    THEN [sent |-> <<ErrorMessage("please join first")>>, found |-> FALSE, id |-> clientId]
    ELSE [sent |-> <<>>, found |-> clientId \in DOMAIN w.state.players, id |-> clientId]

RunSenderIsHost(w, sp) == sp.found /\ w.state.players[sp.id].isHost

RunJoin(w, msg, sender, name) ==
    IF ~Has(msg, "clientId") \/ Falsy(msg.clientId)
    THEN RunReturns(w, sender, <<ErrorMessage("missing clientId")>>)
    ELSE
      LET bind == Bind(w.bind, sender, msg.clientId)
          existing == msg.clientId \in DOMAIN w.state.players
          isFirst == IsFirst(w.playerKeys)
          newState ==
            IF existing THEN w.state
            ELSE [w.state EXCEPT
                    !.players =
                       [id \in DOMAIN w.state.players \cup {msg.clientId} |->
                          IF id = msg.clientId
                          THEN NewPlayer(msg.clientId, name, isFirst, clock)
                          ELSE w.state.players[id]],
                    !.hostId = IF isFirst THEN msg.clientId ELSE @]
      IN [w EXCEPT
            !.bind = bind,
            !.state = newState,
            !.playerKeys = IF existing THEN @ ELSE Append(@, msg.clientId),
            !.outbox = broadcastState(NoMessages, newState, w.connections, bind)]

RunSetRoleCount(w, msg, sender) ==
    LET sp == RunGetSenderPlayer(w, sender) IN
    IF ~RunSenderIsHost(w, sp)
    THEN RunReturns(w, sender, sp.sent \o <<ErrorMessage("only host can edit roles")>>)
    ELSE IF ~Has(msg, "roleKey") \/ ~Has(msg, "count")
    THEN RunReturns(w, sender, sp.sent)
    ELSE
      LET newState ==
            [w.state EXCEPT
               !.roleConfig = SetKey(@, msg.roleKey, Max(0, Min(99, msg.count)))]
      IN [w EXCEPT
            !.state = newState,
            !.outbox = broadcastState(sendAll(NoMessages, sender, sp.sent), newState,
                                      w.connections, w.bind)]

\* what shuffle(deck) can return
ShuffleOutcomes(deck) == {shuffle(deck, draws) : draws \in RngDraws(Len(deck))}

\* shuffled is what shuffle(deck) returns if it is called
RunAssignRoles(w, sender, shuffled) ==
    LET sp == RunGetSenderPlayer(w, sender)
        playerIds == ObjectKeys(w.playerKeys)
        deck == buildDeck(w.state.roleConfig)
    IN
    IF ~RunSenderIsHost(w, sp)
    THEN RunReturns(w, sender, sp.sent \o <<ErrorMessage("only host can assign roles")>>)
    ELSE IF ~DeckFits(deck, playerIds)
    THEN RunReturns(w, sender, sp.sent \o
                      <<ErrorMessage("role count must equal number of players")>>)
    ELSE
      LET orderedPlayers == SortByJoinedAt(playerIds, w.state.players)
          newState ==
            [w.state EXCEPT
               !.players = [id \in DOMAIN w.state.players |->
                              [w.state.players[id] EXCEPT
                                 !.roleKey = At(shuffled, PosIn(orderedPlayers, id))]],
               !.status = "assigned",
               !.assignedAt = clock]
      IN [w EXCEPT
            !.state = newState,
            !.outbox = broadcastState(sendAll(NoMessages, sender, sp.sent), newState,
                                      w.connections, w.bind)]

RunReset(w, sender) ==
    LET sp == RunGetSenderPlayer(w, sender) IN
    IF ~RunSenderIsHost(w, sp)
    THEN RunReturns(w, sender, sp.sent \o <<ErrorMessage("only host can reset")>>)
    ELSE
      LET newState ==
            [w.state EXCEPT
               !.players = ClearRoles(w.state.players),
               !.status = "lobby",
               !.assignedAt = NoTime]
      IN [w EXCEPT
            !.state = newState,
            !.outbox = broadcastState(sendAll(NoMessages, sender, sp.sent), newState,
                                      w.connections, w.bind)]

RunRequestState(w, sender) ==
    [w EXCEPT !.outbox = sendStateTo(NoMessages, w.state, w.bind, sender)]

\* name is what generateOldTimeyName returns if it is called
RunOnMessage(w, raw, sender, name, shuffled) ==
    LET parsed == JSONParse(raw)
        checked == IF parsed.ok THEN clientMessageSchema(parsed.value)
                   ELSE [ok |-> FALSE]
    IN IF ~checked.ok
       THEN RunReturns(w, sender, <<ErrorMessage("invalid message")>>)
       ELSE LET msg == checked.msg IN
            CASE msg.type = "join" -> RunJoin(w, msg, sender, name)
              [] msg.type = "setRoleCount" -> RunSetRoleCount(w, msg, sender)
              [] msg.type = "assignRoles" -> RunAssignRoles(w, sender, shuffled)
              [] msg.type = "reset" -> RunReset(w, sender)
              [] msg.type = "requestState" -> RunRequestState(w, sender)
              [] OTHER -> RunReturns(w, sender, <<ErrorMessage("unknown message type")>>)

\* what the object w becomes when it gets the handler call ev
RunHandler(w, ev, name, shuffled) ==
    CASE ev.handler = "onConnect" -> RunOnConnect(w, ev.conn)
      [] ev.handler = "onClose" -> RunOnClose(w, ev.conn)
      [] ev.handler = "onMessage" -> RunOnMessage(w, ev.raw, ev.conn, name, shuffled)

\* the objects w can become when it gets the handler call ev: one for each
\* result of shuffle if ev is an assignRoles
Outcomes(w, ev, name) ==
    {RunHandler(w, ev, name, shuffled) :
        shuffled \in IF ev.handler = "onMessage" /\ ev.raw = Json([type |-> "assignRoles"])
                     THEN ShuffleOutcomes(buildDeck(w.state.roleConfig))
                     ELSE {<<>>}}

\* the commands given to the two objects
TwinClientIds == {AllIds[i] : i \in 1..MaxTwinIds}

TwinInputs ==
    {Json([type |-> "join", clientId |-> id, name |-> "bob"]) : id \in TwinClientIds}
    \cup {Json([type |-> "setRoleCount", roleKey |-> "A", count |-> MaxTwinIds - 1]),
          Json([type |-> "setRoleCount", roleKey |-> "B", count |-> 1])}
    \cup {Json([type |-> t]) : t \in {"assignRoles", "reset", "requestState"}}

\* the second object gets the call ev the first one gets
TwinFollows(ev, name) == twin' \in Outcomes(twin, ev, name)

\* the name generator returned name to the first object, if it was called
Named(name) ==
    \A p \in DOMAIN state'.players \ DOMAIN state.players : state'.players[p].name = name

\* both objects get the same call, the name generator returns the same name
\* to both, and the shuffles draw on their own
TwinOnConnect(conn) ==
    TwinFollows([handler |-> "onConnect", conn |-> conn], "unused") /\ OnConnect(conn)

TwinOnClose(conn) ==
    TwinFollows([handler |-> "onClose", conn |-> conn], "unused") /\ OnClose(conn)

TwinOnMessage(raw, sender) ==
    \E name \in Names :
        /\ TwinFollows([handler |-> "onMessage", conn |-> sender, raw |-> raw], name)
        /\ OnMessage(raw, sender)
        /\ Named(name)

NextTwin ==
    \/ \E conn \in Conns : TwinOnConnect(conn)
    \/ \E conn \in Conns : TwinOnClose(conn)
    \/ \E raw \in TwinInputs, sender \in Conns : TwinOnMessage(raw, sender)

SpecTwin == Init /\ [][NextTwin]_vars

TypeOK ==
    /\ state.status \in {"lobby", "assigned"}
    /\ DOMAIN state.players \subseteq ClientIds
    /\ connections \subseteq Conns

(* ----- vocabulary of the properties ----- *)
Ids == DOMAIN state.players
Bound(c) == connectionIdToClientId[c]
RoleOf(p) == state.players[p].roleKey
Hosts == {p \in Ids : state.players[p].isHost}

\* the last handler call was onMessage(text of obj, c)
LastMessage(c, obj) == event = [handler |-> "onMessage", conn |-> c, raw |-> Json(obj)]

Inbox(c) == {outbox[c][i] : i \in 1..Len(outbox[c])}
StatesSentTo(c) == {m \in Inbox(c) : m.type = "state"}
ErrorsSentTo(c) == {m \in Inbox(c) : m.type = "error"}

\* every live connection got the current state, projected for its binding
Broadcast ==
    \A c \in connections :
        StateMessage(personalizeStateFor(state, Bound(c))) \in Inbox(c)

(* C1: every state message delivered to a connection carries a non-empty   *)
(* roleKey for participant p only if the connection is bound to p when the  *)
(* message is sent, and then it is p's true role; a connection without a    *)
(* binding gets no roleKey at all.                                          *)
C1_Redaction ==
    \A c \in Conns : \A m \in StatesSentTo(c) :
        /\ DOMAIN m.state.players = Ids
        /\ \A p \in Ids :
             /\ m.state.players[p].roleKey # NoRole =>
                   Bound(c) = p /\ m.state.players[p].roleKey = RoleOf(p)
             /\ Bound(c) = p => m.state.players[p].roleKey = RoleOf(p)
        /\ Bound(c) = Null => \A p \in Ids : m.state.players[p].roleKey = NoRole

C1_Witness ==
    \E c \in connections, d \in connections :
        /\ c # d /\ Bound(c) \in Ids /\ Bound(d) \in Ids /\ Bound(c) # Bound(d)
        /\ RoleOf(Bound(c)) # NoRole /\ RoleOf(Bound(d)) # NoRole
        /\ \E m \in StatesSentTo(c) :
              /\ m.state.players[Bound(c)].roleKey = RoleOf(Bound(c))
              /\ m.state.players[Bound(d)].roleKey = NoRole

(* C2: at most one participant has isHost = true, and hostId is null or the *)
(* id of an existing participant whose isHost is true.                      *)
C2_HostInvariant ==
    /\ Cardinality(Hosts) <= 1
    /\ state.hostId = Null \/ state.hostId \in Hosts

C2_Witness == Cardinality(Ids) >= 2 /\ state.hostId \in Hosts

(* C3: once some join has succeeded, exactly one participant has isHost =   *)
(* true and no participant has a smaller joinedAt than it.                  *)
C3_OneHostEarliest ==
    Ids # {} =>
        /\ Cardinality(Hosts) = 1
        /\ \A h \in Hosts : \A p \in Ids :
              state.players[h].joinedAt <= state.players[p].joinedAt

C3_Witness ==
    \E h \in Hosts : \E p \in Ids : state.players[h].joinedAt < state.players[p].joinedAt

(* C4: status = lobby implies every roleKey and assignedAt are empty;       *)
(* status = assigned implies assignedAt is set and every participant that   *)
(* existed at the last successful assignRoles has a non-empty roleKey.      *)
C4_StatusRoleCoherence ==
    /\ state.status = "lobby" =>
          /\ \A p \in Ids : RoleOf(p) = NoRole
          /\ state.assignedAt = NoTime
    /\ state.status = "assigned" =>
          /\ state.assignedAt # NoTime
          /\ dealt # {}
          /\ \A p \in dealt : p \in Ids /\ RoleOf(p) \in RoleKeySet

\* an assigned room with a participant that joined after the deal
C4_Witness ==
    /\ state.status = "assigned"
    /\ \E p \in Ids : p \notin dealt /\ RoleOf(p) = NoRole

(* C5: when the host sends assignRoles and the sum of the quota equals the  *)
(* number of known participants, the deal succeeds: every participant holds *)
(* one role key of positive quota, and for every key k exactly quota[k]     *)
(* participants hold k.                                                     *)
C5_DealIsDeck ==
    \A c \in Conns :
        ( /\ LastMessage(c, [type |-> "assignRoles"])
          /\ Bound(c) \in Hosts
          /\ totalRoles(state.roleConfig) = Cardinality(Ids) )
        => /\ state.status = "assigned"
           /\ state.assignedAt # NoTime
           /\ StatesSentTo(c) # {} /\ ErrorsSentTo(c) = {}
           /\ \A p \in Ids : RoleOf(p) \in RoleKeySet /\ state.roleConfig[RoleOf(p)] > 0
           /\ \A k \in RoleKeySet :
                 Cardinality({p \in Ids : RoleOf(p) = k}) = state.roleConfig[k]

C5_Witness ==
    /\ \E c \in Conns : LastMessage(c, [type |-> "assignRoles"]) /\ Bound(c) \in Hosts
    /\ Cardinality(Ids) = 2
    /\ state.status = "assigned"
    /\ \E p \in Ids, q \in Ids : RoleOf(p) = "A" /\ RoleOf(q) = "B"

(* C6: assignRoles from the host fails with the quota-mismatch error        *)
(* whenever the quota total differs from the number of known participants   *)
(* (disconnected and late-joined ones included); the failure leaves status, *)
(* assignedAt and every roleKey as they were and only the sender gets the   *)
(* error.                                                                   *)
QuotaMismatchError == ErrorMessage("role count must equal number of players")

C6_QuotaMismatch ==
    [][\A c \in Conns :
        ( /\ OnMessage(Json([type |-> "assignRoles"]), c)
          /\ Bound(c) \in Hosts
          /\ totalRoles(state.roleConfig) # Cardinality(Ids) )
        => /\ state' = state
           /\ playerKeys' = playerKeys
           /\ outbox' = [NoMessages EXCEPT ![c] = <<QuotaMismatchError>>]]_vars

\* the host retries the deal after a participant joined an assigned room,
\* while that participant has no live connection
C6_Witness ==
    \E c \in Conns :
        /\ LastMessage(c, [type |-> "assignRoles"])
        /\ Bound(c) \in Hosts
        /\ state.status = "assigned"
        /\ \E p \in Ids : p \notin dealt /\ \A d \in Conns : Bound(d) # p
        /\ outbox[c] = <<QuotaMismatchError>>

(* C7: setRoleCount, assignRoles and reset from a connection bound to a     *)
(* participant that is not host are rejected with the command's "only host" *)
(* error to the sender and change nothing; quota, status, assignedAt and    *)
(* roles change only in a message handler whose sender is bound to hostId.  *)
HostOnlyInputs ==
    {obj \in SetRoleCountInputs : SchemaAccepts(obj)}
    \cup {[type |-> "assignRoles"], [type |-> "reset"]}

NotAuthorizedError(obj) ==
    ErrorMessage(CASE obj.type = "setRoleCount" -> "only host can edit roles"
                   [] obj.type = "assignRoles" -> "only host can assign roles"
                   [] obj.type = "reset" -> "only host can reset")

C7_HostOnly ==
    [][/\ \A c \in Conns, obj \in HostOnlyInputs :
            ( /\ OnMessage(Json(obj), c)
              /\ Bound(c) \in Ids
              /\ ~state.players[Bound(c)].isHost )
            => /\ state' = state
               /\ outbox' = [NoMessages EXCEPT ![c] = <<NotAuthorizedError(obj)>>]
       /\ ( \/ state'.roleConfig # state.roleConfig
            \/ state'.status # state.status
            \/ state'.assignedAt # state.assignedAt
            \/ \E p \in Ids : state'.players[p].roleKey # state.players[p].roleKey )
          => /\ event'.handler = "onMessage"
             /\ state.hostId # Null
             /\ Bound(event'.conn) = state.hostId]_vars

C7_Witness ==
    \E c \in Conns :
        /\ LastMessage(c, [type |-> "setRoleCount", roleKey |-> "A", count |-> 1])
        /\ Bound(c) \in Ids \ Hosts
        /\ state.roleConfig["A"] # 1
        /\ outbox[c] = <<ErrorMessage("only host can edit roles")>>

(* C8: a setRoleCount for role A with count 150 from the host is clamped,   *)
(* not rejected: afterwards roleConfig[A] = 99 and the state is broadcast.  *)
C8_ClampedNotRejected ==
    \A c \in Conns :
        ( /\ LastMessage(c, [type |-> "setRoleCount", roleKey |-> "A", count |-> 150])
          /\ Bound(c) \in Hosts )
        => state.roleConfig["A"] = 99 /\ Broadcast

(* C9: a join that carries only type "join" and a non-empty clientId is     *)
(* accepted: the connection is bound to the id, the participant exists and  *)
(* the state is broadcast.                                                  *)
C9_BareJoinAccepted ==
    \A c \in Conns :
        LastMessage(c, [type |-> "join", clientId |-> AllIds[1]])
        => Bound(c) = AllIds[1] /\ AllIds[1] \in Ids /\ Broadcast

(* C10: a join with an id that already has a participant record changes no  *)
(* field of any participant, not hostId, and creates no participant; its    *)
(* only effect is to bind the sending connection to that id (and the join   *)
(* the schema accepts does bind it and broadcasts).                         *)
C10_JoinIdempotent ==
    [][\A c \in Conns, obj \in JoinInputs :
        ( /\ Has(obj, "clientId") /\ obj.clientId \in Ids
          /\ OnMessage(Json(obj), c) )
        => /\ state' = state
           /\ playerKeys' = playerKeys
           /\ \A d \in Conns \ {c} :
                 connectionIdToClientId'[d] = connectionIdToClientId[d]
           /\ connectionIdToClientId'[c] \in {connectionIdToClientId[c], obj.clientId}
           /\ SchemaAccepts(obj) =>
                 /\ connectionIdToClientId'[c] = obj.clientId
                 /\ Broadcast']_vars

\* the host's id joined again, after the deal, on a second connection
C10_Witness ==
    \E c \in connections, d \in connections :
        /\ c # d /\ Bound(c) = Bound(d) /\ Bound(c) \in Hosts
        /\ LastMessage(c, [type |-> "join", clientId |-> Bound(c), name |-> "bob"])
        /\ RoleOf(Bound(c)) # NoRole
        /\ state.players[Bound(c)].joinedAt < clock

(* ----- vocabulary of the command properties ----- *)
MessageEvent(c, obj) == [handler |-> "onMessage", conn |-> c, raw |-> Json(obj)]

ResetInput == [type |-> "reset"]
AssignInput == [type |-> "assignRoles"]
RequestInput == [type |-> "requestState"]
ValidJoins == {obj \in JoinInputs : SchemaAccepts(obj)}
ValidSetRoleCounts == {obj \in SetRoleCountInputs : SchemaAccepts(obj)}
Commands == ValidJoins \cup ValidSetRoleCounts \cup {AssignInput, ResetInput}

\* a join, setRoleCount, assignRoles or reset that passes every test of its
\* handler when connection c sends it in the current state
Succeeds(obj, c) ==
    /\ obj \in Commands
    /\ obj.type \in {"setRoleCount", "assignRoles", "reset"} => Bound(c) \in Hosts
    /\ obj.type = "assignRoles" => totalRoles(state.roleConfig) = Cardinality(Ids)

\* the inbound messages the error taxonomy covers: unparseable text, a schema
\* violation, a message type the dispatcher does not know, and a host-only
\* command that fails its sender or quota test
Rejected(raw, c) ==
    \/ ~Has(raw, "json")
    \/ raw.json \notin Commands \cup {RequestInput}
    \/ raw.json \in Commands /\ ~Succeeds(raw.json, c)

\* every participant keeps id, name, joinedAt and isHost, nobody comes or
\* goes, and hostId stays
SameIdentities ==
    /\ DOMAIN state'.players = Ids
    /\ playerKeys' = playerKeys
    /\ state'.hostId = state.hostId
    /\ \A p \in Ids :
          /\ state'.players[p].id = state.players[p].id
          /\ state'.players[p].name = state.players[p].name
          /\ state'.players[p].joinedAt = state.players[p].joinedAt
          /\ state'.players[p].isHost = state.players[p].isHost

\* the step is the onMessage call that event records after it
IsMessageStep ==
    /\ event'.handler = "onMessage"
    /\ OnMessage(event'.raw, event'.conn)

\* what a broadcast of the new state puts in the inbox of connection d
ProjectedForNext(d) ==
    <<StateMessage(personalizeStateFor(state', connectionIdToClientId'[d]))>>

(* C11: a successful reset by the host of an assigned room sets status to   *)
(* lobby and clears every roleKey and assignedAt; the reset and the         *)
(* assignRoles before it both keep the participant set, every id, name,     *)
(* joinedAt and isHost, and hostId.                                         *)
C11_ResetRoundTrip ==
    [][\A c \in Conns :
        /\ ( /\ state.status = "assigned"
             /\ Succeeds(ResetInput, c)
             /\ OnMessage(Json(ResetInput), c) )
           => /\ state'.status = "lobby"
              /\ state'.assignedAt = NoTime
              /\ \A p \in Ids : state'.players[p].roleKey = NoRole
              /\ state'.roleConfig = state.roleConfig
              /\ SameIdentities
        /\ ( /\ Succeeds(AssignInput, c)
             /\ OnMessage(Json(AssignInput), c) )
           => /\ state'.status = "assigned"
              /\ SameIdentities]_vars

C11_Witness ==
    \E c \in Conns :
        /\ LastMessage(c, ResetInput) /\ Bound(c) \in Hosts
        /\ state.status = "lobby" /\ state.assignedAt = NoTime
        /\ Cardinality(Ids) = 2 /\ dealt = Ids
        /\ \A p \in Ids : RoleOf(p) = NoRole

(* C12: every successful join, setRoleCount, assignRoles and reset puts one *)
(* state message in the inbox of every live connection, the new state       *)
(* projected for that connection's binding, and nothing else anywhere; a    *)
(* message that does not succeed sends nothing to any connection but its    *)
(* sender.                                                                  *)
C12_BroadcastOnSuccess ==
    [][IsMessageStep =>
         LET c == event'.conn
             raw == event'.raw
         IN IF Has(raw, "json") /\ Succeeds(raw.json, c)
            THEN \A d \in Conns :
                    outbox'[d] = IF d \in connections THEN ProjectedForNext(d) ELSE <<>>
            ELSE \A d \in Conns \ {c} : outbox'[d] = <<>>]_vars

\* the host changed a count while a connection that never joined was live
C12_Witness ==
    \E c \in connections, d \in connections :
        /\ LastMessage(c, [type |-> "setRoleCount", roleKey |-> "B", count |-> 1])
        /\ Bound(c) \in Hosts /\ Bound(d) = Null
        /\ Len(outbox[d]) = 1
        /\ outbox[d][1].type = "state"
        /\ outbox[d][1].state.roleConfig["B"] = 1

C14_NotJoinedIsAnError ==
    \A c \in Conns, obj \in ValidSetRoleCounts \cup {AssignInput, ResetInput, RequestInput} :
        (LastMessage(c, obj) /\ Bound(c) = Null)
        => ErrorsSentTo(c) # {} /\ StatesSentTo(c) = {}

(* C15: requestState changes neither the room state nor the bindings and    *)
(* sends exactly one message: the state projected for the caller's binding, *)
(* to the caller.                                                           *)
C15_RequestStateIsReadOnly ==
    [][\A c \in Conns :
        OnMessage(Json(RequestInput), c)
        => /\ state' = state
           /\ playerKeys' = playerKeys
           /\ connectionIdToClientId' = connectionIdToClientId
           /\ connections' = connections
           /\ outbox' = [NoMessages EXCEPT
                 ![c] = <<StateMessage(personalizeStateFor(state, Bound(c)))>>]]_vars

C15_Witness ==
    \E c \in connections, d \in connections :
        /\ c # d /\ Bound(c) \in Ids /\ Bound(d) \in Ids /\ Bound(c) # Bound(d)
        /\ LastMessage(c, RequestInput)
        /\ RoleOf(Bound(c)) # NoRole /\ RoleOf(Bound(d)) # NoRole
        /\ Len(outbox[c]) = 1
        /\ outbox[c][1].state.players[Bound(c)].roleKey = RoleOf(Bound(c))
        /\ outbox[c][1].state.players[Bound(d)].roleKey = NoRole
        /\ outbox[d] = <<>>

(* C16: status and the roleKey of an existing participant change only in a  *)
(* successful assignRoles (status becomes assigned) or a successful reset   *)
(* (status becomes lobby); every other step leaves them alone, and a        *)
(* participant that a join creates has an empty roleKey.                    *)
C16_StatusChangesOnlyByDealOrReset ==
    [][/\ ( \/ state'.status # state.status
            \/ \E p \in Ids : state'.players[p].roleKey # state.players[p].roleKey )
          => \E c \in Conns :
                \/ /\ event' = MessageEvent(c, AssignInput)
                   /\ Succeeds(AssignInput, c)
                   /\ state'.status = "assigned"
                \/ /\ event' = MessageEvent(c, ResetInput)
                   /\ Succeeds(ResetInput, c)
                   /\ state'.status = "lobby"
       /\ \A p \in DOMAIN state'.players \ Ids :
             state'.players[p].roleKey = NoRole]_vars

\* a join created a participant in an assigned room
C16_Witness ==
    \E c \in Conns, obj \in ValidJoins :
        /\ LastMessage(c, obj)
        /\ state.status = "assigned"
        /\ obj.clientId \in Ids \ dealt
        /\ RoleOf(obj.clientId) = NoRole
        /\ \E p \in dealt : RoleOf(p) # NoRole

(* C17: closing a connection removes that connection's binding and its      *)
(* membership in the live set and changes nothing else; a later join with   *)
(* the id of an existing participant leaves the record as it was, and the   *)
(* joining connection's state message shows that participant's own role.    *)
C17_ReconnectionSafe ==
    [][\A c \in Conns :
        /\ OnClose(c)
           => /\ state' = state
              /\ playerKeys' = playerKeys
              /\ connections' = connections \ {c}
              /\ connectionIdToClientId' = [connectionIdToClientId EXCEPT ![c] = Null]
        /\ \A obj \in ValidJoins :
              (obj.clientId \in Ids /\ OnMessage(Json(obj), c))
              => /\ state' = state
                 /\ connectionIdToClientId'[c] = obj.clientId
                 /\ Len(outbox'[c]) = 1
                 /\ outbox'[c][1].type = "state"
                 /\ outbox'[c][1].state.players[obj.clientId] = state.players[obj.clientId]]_vars

\* a dealt participant that is not the host is back on the only live
\* connection and sees its role
C17_Witness ==
    \E c \in Conns, obj \in ValidJoins :
        /\ LastMessage(c, obj)
        /\ connections = {c}
        /\ obj.clientId \in Ids \ Hosts
        /\ RoleOf(obj.clientId) # NoRole
        /\ state.players[obj.clientId].joinedAt < state.assignedAt
        /\ Len(outbox[c]) = 1
        /\ outbox[c][1].state.players[obj.clientId].roleKey = RoleOf(obj.clientId)

(* C18: a participant that is in the room is in the room after every step,  *)
(* with the same id and joinedAt.                                           *)
C18_ParticipantsOnlyGrow ==
    [][\A p \in Ids :
        /\ p \in DOMAIN state'.players
        /\ state'.players[p].id = p
        /\ state'.players[p].joinedAt = state.players[p].joinedAt]_vars

\* after a deal and a reset, a participant without any connection is still
\* in the room
C18_Witness ==
    /\ state.status = "lobby" /\ dealt # {}
    /\ \E p \in dealt : /\ p \in Ids
                        /\ \A c \in Conns : Bound(c) # p
                        /\ state.players[p].joinedAt < clock

(* C19: when conn.send throws for some live connections during the          *)
(* broadcast of a successful command, every other live connection still     *)
(* gets its state message, the command's mutation is kept, and no           *)
(* connection is sent an error.                                             *)
C19_SendFailureIsolated ==
    [][\A c \in Conns, obj \in Commands :
        (Succeeds(obj, c) /\ OnMessage(Json(obj), c))
        => /\ \A d \in Conns :
                 outbox'[d] = IF d \in connections \ throwing
                              THEN ProjectedForNext(d) ELSE <<>>
           /\ obj.type = "join" =>
                 obj.clientId \in DOMAIN state'.players
                 /\ connectionIdToClientId'[c] = obj.clientId
           /\ obj.type = "setRoleCount" => state'.roleConfig[obj.roleKey] = obj.count
           /\ obj.type = "assignRoles" =>
                 /\ state'.status = "assigned"
                 /\ \A p \in Ids : state'.players[p].roleKey \in RoleKeySet
           /\ obj.type = "reset" =>
                 /\ state'.status = "lobby"
                 /\ \A p \in Ids : state'.players[p].roleKey = NoRole]_vars

\* the host dealt while the send to one live connection threw and another
\* live connection was served
C19_Witness ==
    \E c \in connections, d \in connections :
        /\ c \in throwing /\ d \notin throwing
        /\ \E h \in Conns : LastMessage(h, AssignInput) /\ Bound(h) \in Hosts
        /\ state.status = "assigned"
        /\ outbox[c] = <<>>
        /\ outbox[d] = <<StateMessage(personalizeStateFor(state, Bound(d)))>>

(* C20: roleConfig always has exactly the catalog keys A, B, C, D and every *)
(* count is an integer in 0..99.                                            *)
C20_RoleConfigInRange ==
    /\ DOMAIN state.roleConfig = RoleKeySet
    /\ \A k \in RoleKeySet : state.roleConfig[k] \in 0..99

\* the host asked for a role outside the catalog after setting two counts
C20_Witness ==
    \E c \in Conns :
        /\ LastMessage(c, [type |-> "setRoleCount", roleKey |-> "Z", count |-> 1])
        /\ Bound(c) \in Hosts
        /\ state.roleConfig["A"] = 1 /\ state.roleConfig["B"] = 1

(* C21: a setRoleCount for a role outside the catalog is answered with an  *)
(* error to its sender only, adds no key to roleConfig and changes no       *)
(* count (nor anything else of the state), whoever sends it.                *)
UnknownRoleInput == [type |-> "setRoleCount", roleKey |-> "Z", count |-> 1]

C21_UnknownRoleRejected ==
    [][( /\ event'.handler = "onMessage"
         /\ event'.raw = Json(UnknownRoleInput)
         /\ OnMessage(event'.raw, event'.conn) )
        => /\ DOMAIN state'.roleConfig = RoleKeySet
           /\ state' = state
           /\ outbox' = [NoMessages EXCEPT
                 ![event'.conn] = <<ErrorMessage("invalid message")>>]]_vars

\* the host asked for role Z while a second connection was live
C21_Witness ==
    \E c \in connections, d \in connections :
        /\ c # d /\ Bound(c) \in Hosts
        /\ LastMessage(c, UnknownRoleInput)
        /\ outbox[c] = <<ErrorMessage("invalid message")>>
        /\ outbox[d] = <<>>
        /\ DOMAIN state.roleConfig = RoleKeySet
        /\ state.roleConfig["A"] = 1

(* C22: buildDeck(quota) has as many entries as the quota values sum to,    *)
(* holds each role key quota[key] times, lists the keys in catalog order    *)
(* (A, then B, then C, then D), and totalRoles(quota) is its length.        *)
CatalogIndex(k) == CHOOSE i \in 1..Len(roleKeys) : roleKeys[i] = k
Occurrences(seq, e) == Cardinality({i \in 1..Len(seq) : seq[i] = e})

C22_BuildDeckContract ==
    calc.op = "buildDeck" =>
        LET q == calc.quota
            deck == calc.deck
        IN /\ Len(deck) = q["A"] + q["B"] + q["C"] + q["D"]
           /\ \A k \in RoleKeySet : Occurrences(deck, k) = q[k]
           /\ \A i \in 1..Len(deck) : deck[i] \in RoleKeySet
           /\ \A i \in 1..Len(deck), j \in 1..Len(deck) :
                 i < j => CatalogIndex(deck[i]) <= CatalogIndex(deck[j])
           /\ calc.total = Len(deck)

\* a quota with a repeated key, an absent key and a single key
C22_Witness ==
    /\ calc.op = "buildDeck"
    /\ calc.quota = [k \in RoleKeySet |-> CASE k = "A" -> 2 [] k = "B" -> 0
                                            [] k = "C" -> 1 [] OTHER -> 2]
    /\ calc.deck = <<"A", "A", "C", "D", "D">>
    /\ calc.total = 5

(* C23: whatever the list and whatever values in [0, 1) rng() returns,      *)
(* shuffle returns a list of the same length with the same elements the     *)
(* same number of times, and the list it was given is as it was.            *)
C23_ShuffleIsPermutation ==
    calc.op = "shuffle" =>
        /\ Len(calc.returned) = Len(calc.input)
        /\ \A e \in Elems : Occurrences(calc.returned, e) = Occurrences(calc.input, e)
        /\ calc.list = calc.input

\* a list with a repeated element came back in another order
C23_Witness ==
    /\ calc.op = "shuffle"
    /\ calc.input = <<"A", "A", "B">>
    /\ calc.returned = <<"B", "A", "A">>
    /\ calc.list = <<"A", "A", "B">>

(* C24: every state message a connection holds is the projection, for that *)
(* connection's binding, of the state the handler that sent it left behind: *)
(* no message shows a state between two commands, and none shows status     *)
(* assigned while a participant of the deal is without a role.              *)
C24_MessagesShowWholeCommands ==
    \A c \in Conns : \A m \in StatesSentTo(c) :
        /\ m.state = personalizeStateFor(state, Bound(c))
        /\ m.state.status = "assigned" =>
              /\ \A p \in dealt : RoleOf(p) \in RoleKeySet
              /\ Bound(c) \in dealt => m.state.players[Bound(c)].roleKey \in RoleKeySet

\* the deal reached two connections bound to different participants
C24_Witness ==
    \E c \in connections, d \in connections, h \in Conns :
        /\ LastMessage(h, AssignInput)
        /\ c # d /\ Bound(c) \in dealt /\ Bound(d) \in dealt /\ Bound(c) # Bound(d)
        /\ outbox[c] = <<StateMessage(personalizeStateFor(state, Bound(c)))>>
        /\ outbox[d] = <<StateMessage(personalizeStateFor(state, Bound(d)))>>
        /\ outbox[c][1].state.status = "assigned"
        /\ outbox[c][1].state.players[Bound(c)].roleKey \in RoleKeySet

(* C25: while the room stays assigned no roleKey and not assignedAt         *)
(* changes: an assignRoles received in an assigned room deals nothing.      *)
C25_NoRedealWhileAssigned ==
    [][(state.status = "assigned" /\ state'.status = "assigned")
        => /\ state'.assignedAt = state.assignedAt
           /\ \A p \in Ids : state'.players[p].roleKey = state.players[p].roleKey]_vars

(* C26: in every assigned state in which nobody joined after the deal, the  *)
(* number of participants holding role k is roleConfig[k], for every k.     *)
C26_AssignedCountsMatchQuota ==
    (state.status = "assigned" /\ Ids = dealt)
    => \A k \in RoleKeySet :
          Cardinality({p \in Ids : RoleOf(p) = k}) = state.roleConfig[k]

(* C27: after a successful assignRoles the i-th participant, in ascending   *)
(* joinedAt with ties in creation order, holds the i-th entry of the        *)
(* shuffled deck, whatever the client ids are.                              *)
CreationOrder == SortByJoinedAt(playerKeys, state.players)

C27_DealFollowsCreationOrder ==
    dealtDeck # <<>> =>
        \A i \in 1..Len(CreationOrder) : RoleOf(CreationOrder[i]) = At(dealtDeck, i)

(* C28: a join binds the sending connection to the id it carries, whatever  *)
(* the connection was bound to before, and leaves the record of the former  *)
(* id alone; the state message the join sends it shows the new id's role    *)
(* and not the former id's; a binding changes only by a join or the close   *)
(* of its connection; and a host-only command is refused as unauthorized    *)
(* exactly when the id the sender is bound to now is not the host.          *)
C28_BindingLastWriteWins ==
    [][/\ IsMessageStep =>
            LET c == event'.conn
                raw == event'.raw
            IN /\ (Has(raw, "json") /\ raw.json \in ValidJoins) =>
                    LET x == Bound(c)
                        y == raw.json.clientId
                    IN /\ connectionIdToClientId'[c] = y
                       /\ x \in Ids => state'.players[x] = state.players[x]
                       /\ Len(outbox'[c]) = 1 /\ outbox'[c][1].type = "state"
                       /\ outbox'[c][1].state.players[y].roleKey
                             = state'.players[y].roleKey
                       /\ (x \in Ids /\ x # y) =>
                             outbox'[c][1].state.players[x].roleKey = NoRole
               /\ (Has(raw, "json") /\ raw.json \in HostOnlyInputs /\ Bound(c) \in Ids) =>
                    ( (outbox'[c] = <<NotAuthorizedError(raw.json)>> /\ state' = state)
                      <=> Bound(c) \notin Hosts )
       /\ \A c \in Conns :
            connectionIdToClientId'[c] # connectionIdToClientId[c] =>
               /\ event'.conn = c
               /\ \/ event'.handler = "onClose"
                  \/ /\ event'.handler = "onMessage"
                     /\ Has(event'.raw, "json") /\ event'.raw.json \in ValidJoins
                     /\ connectionIdToClientId'[c] = event'.raw.json.clientId]_vars

\* the only live connection has joined as a dealt participant that is not
\* the host, and sees that participant's role and not the host's
C28_Witness ==
    \E c \in Conns, obj \in ValidJoins :
        /\ LastMessage(c, obj)
        /\ connections = {c}
        /\ Bound(c) = obj.clientId /\ Bound(c) \in Ids \ Hosts
        /\ \A p \in Ids : RoleOf(p) \in RoleKeySet
        /\ Len(outbox[c]) = 1
        /\ outbox[c][1].state.players[Bound(c)].roleKey = RoleOf(Bound(c))
        /\ \A h \in Hosts : outbox[c][1].state.players[h].roleKey = NoRole

(* C29: no step changes the name of a participant, a participant a join     *)
(* creates gets a name of the server's generator (not the name the join     *)
(* carries), and setName and setReady change nothing and are answered with  *)
(* one error, to the sender only.                                           *)
C29_NamesNotEditable ==
    [][/\ \A p \in Ids : /\ p \in DOMAIN state'.players
                         /\ state'.players[p].name = state.players[p].name
       /\ \A p \in DOMAIN state'.players \ Ids : state'.players[p].name \in Names
       /\ ( /\ event'.handler = "onMessage"
            /\ Has(event'.raw, "json")
            /\ event'.raw.json.type \in {"setName", "setReady"}
            /\ OnMessage(event'.raw, event'.conn) )
          => /\ state' = state
             /\ playerKeys' = playerKeys
             /\ connectionIdToClientId' = connectionIdToClientId
             /\ outbox' = [NoMessages EXCEPT
                   ![event'.conn] = <<ErrorMessage("unknown message type")>>]]_vars

\* a participant asked for the name bob while a second connection was live
C29_Witness ==
    \E c \in connections, d \in connections :
        /\ c # d /\ Bound(c) \in Ids
        /\ LastMessage(c, [type |-> "setName", name |-> "bob"])
        /\ state.players[Bound(c)].name \in Names
        /\ outbox[c] = <<ErrorMessage("unknown message type")>>
        /\ outbox[d] = <<>>

(* C30: shuffle walks i from the last index down to 1 and swaps position i  *)
(* with the index chosen from the next value drawn, which lies in 0..i; on  *)
(* a list of n distinct elements two runs return the same list exactly when *)
(* they chose the same indices, and the runs return all n! orders.          *)
\* the index chosen at loop index i (0-based) when n elements are shuffled
ChosenIndices(n, draws) ==
    [i \in 1..(IF n > 1 THEN n - 1 ELSE 0) |-> chosenIndex(draws[n - i], i)]

RECURSIVE SwapsDown(_, _, _)
SwapsDown(arr, i, js) ==
    IF i < 1 THEN arr ELSE SwapsDown(Swap(arr, i + 1, js[i] + 1), i - 1, js)

RECURSIVE Factorial(_)
Factorial(n) == IF n <= 1 THEN 1 ELSE n * Factorial(n - 1)

Distinct(seq) == \A i \in 1..Len(seq), j \in 1..Len(seq) : seq[i] = seq[j] => i = j

Orders(seq) ==
    {f \in [1..Len(seq) -> {seq[i] : i \in 1..Len(seq)}] : Distinct(f)}

C30_ShuffleIsFisherYates ==
    calc.op = "shuffle" =>
        LET n == Len(calc.input)
            js == ChosenIndices(n, calc.draws)
            runs == RngDraws(n)
        IN /\ \A i \in DOMAIN js : js[i] \in 0..i
           /\ calc.returned = SwapsDown(calc.input, n - 1, js)
           /\ \A d \in runs :
                 ChosenIndices(n, d) = js => shuffle(calc.input, d) = calc.returned
           /\ Distinct(calc.input) =>
                 /\ \A d \in runs :
                       shuffle(calc.input, d) = calc.returned => ChosenIndices(n, d) = js
                 /\ {shuffle(calc.input, d) : d \in runs} = Orders(calc.input)
                 /\ Cardinality({ChosenIndices(n, d) : d \in runs}) = Factorial(n)
                 /\ Cardinality(Orders(calc.input)) = Factorial(n)

\* three distinct elements came back reversed
C30_Witness ==
    /\ calc.op = "shuffle"
    /\ calc.input = <<"A", "B", "C">>
    /\ calc.returned = <<"C", "B", "A">>
    /\ ChosenIndices(3, calc.draws) = <<1, 0>>

(* C31: every rejected inbound message sends exactly one message, an error *)
(* to its sender, and nothing to any other connection; a setRoleCount,      *)
(* assignRoles or reset from a connection that has not joined is one of     *)
(* them.                                                                    *)
C31_OneErrorPerRejection ==
    [][(IsMessageStep /\ Rejected(event'.raw, event'.conn))
        => LET c == event'.conn IN
           /\ Len(outbox'[c]) = 1
           /\ outbox'[c][1].type = "error"
           /\ \A d \in Conns \ {c} : outbox'[d] = <<>>]_vars

(* C32: a hostId that is set never changes and the set of participants     *)
(* with isHost = true never changes once it is not empty; the host is the   *)
(* participant created first; while no live connection is bound to hostId   *)
(* every setRoleCount, assignRoles and reset changes nothing and is         *)
(* answered with errors to its sender only; and a join with the host's id   *)
(* binds its connection to the host, whose host-only commands are not       *)
(* refused as unauthorized.                                                 *)
HostIsLive == state.hostId # Null /\ \E d \in connections : Bound(d) = state.hostId

C32_HostIsPermanent ==
    [][/\ state.hostId # Null =>
            /\ state'.hostId = state.hostId
            /\ {p \in DOMAIN state'.players : state'.players[p].isHost} = Hosts
       /\ state'.hostId # Null =>
            /\ state'.hostId = playerKeys'[1]
            /\ {p \in DOMAIN state'.players : state'.players[p].isHost} = {state'.hostId}
       /\ IsMessageStep =>
            LET c == event'.conn
                raw == event'.raw
            IN /\ (Has(raw, "json") /\ raw.json \in HostOnlyInputs /\ ~HostIsLive) =>
                    /\ state' = state
                    /\ outbox'[c] # <<>>
                    /\ \A i \in 1..Len(outbox'[c]) : outbox'[c][i].type = "error"
                    /\ \A d \in Conns \ {c} : outbox'[d] = <<>>
               /\ ( /\ Has(raw, "json") /\ raw.json \in ValidJoins
                    /\ raw.json.clientId = state.hostId ) =>
                    /\ connectionIdToClientId'[c] = state.hostId
                    /\ state'.hostId = state.hostId
               /\ ( /\ Has(raw, "json") /\ raw.json \in HostOnlyInputs
                    /\ Bound(c) # Null /\ Bound(c) = state.hostId ) =>
                    /\ NotAuthorizedError(raw.json) \notin {outbox'[c][i] : i \in 1..Len(outbox'[c])}
                    /\ Succeeds(raw.json, c) => outbox'[c] = ProjectedForNext(c)]_vars

\* a participant that is not the host asked for a reset of the assigned room
\* while no live connection was bound to the host
C32_Witness ==
    \E c \in connections :
        /\ LastMessage(c, ResetInput)
        /\ Bound(c) \in Ids \ Hosts
        /\ state.hostId \in Ids /\ ~HostIsLive
        /\ state.status = "assigned"
        /\ outbox[c] = <<ErrorMessage("only host can reset")>>

(* C33: every connection that has a binding is live, and every bound id is  *)
(* the id of an existing participant.                                       *)
C33_SessionRegistry ==
    \A c \in Conns :
        Bound(c) # Null => c \in connections /\ Bound(c) \in Ids

\* one participant is bound to a live connection, another lost its binding
\* when its connection closed
C33_Witness ==
    \E c \in connections, d \in Conns \ connections :
        /\ Bound(c) \in Ids /\ Bound(d) = Null
        /\ event = [handler |-> "onClose", conn |-> d]
        /\ \E p \in Ids : \A e \in Conns : Bound(e) # p

(* C34: run the room twice on the same connects, messages and closes, the  *)
(* runs differing only in what their shuffles return.  After every handler  *)
(* call the two rooms are equal in everything but roleKeys, and every       *)
(* connection that is unbound, or whose participant holds the same role in  *)
(* both rooms, was sent the same messages by that call in both.  (The       *)
(* second room is run by the handlers written as functions; the first       *)
(* conjunct says they compute what the handlers of the first room compute.) *)
EraseRoles(st) ==
    [st EXCEPT !.players =
        [id \in DOMAIN st.players |-> [st.players[id] EXCEPT !.roleKey = NoRole]]]

SameRoleInBoth(c) ==
    \/ Bound(c) = Null
    \/ /\ Bound(c) \in Ids /\ Bound(c) \in DOMAIN twin.state.players
       /\ RoleOf(Bound(c)) = twin.state.players[Bound(c)].roleKey

Server == [state |-> state, playerKeys |-> playerKeys, connections |-> connections,
           bind |-> connectionIdToClientId, outbox |-> outbox]

SameButRoles ==
    /\ EraseRoles(twin.state) = EraseRoles(state)
    /\ twin.playerKeys = playerKeys
    /\ twin.connections = connections
    /\ twin.bind = connectionIdToClientId

C34_Noninterference ==
    [][/\ \E name \in Names :
            Named(name) /\ Server' = RunHandler(Server, event', name, dealtDeck')
       /\ SameButRoles'
       /\ \A c \in Conns : SameRoleInBoth(c)' => twin'.outbox[c] = outbox'[c]]_vars

\* three participants were dealt; the one on connection c holds the same
\* role in both rooms, the other two hold each other's, and a connection
\* that never joined got the deal too
C34_Witness ==
    \E c \in connections, d \in connections, h \in Conns :
        /\ LastMessage(h, AssignInput)
        /\ c # d /\ Bound(c) \in Ids /\ Bound(d) = Null
        /\ Cardinality(Ids) = 3
        /\ RoleOf(Bound(c)) \in RoleKeySet
        /\ RoleOf(Bound(c)) = twin.state.players[Bound(c)].roleKey
        /\ \E p \in Ids, q \in Ids :
              /\ p # q
              /\ RoleOf(p) # RoleOf(q)
              /\ twin.state.players[p].roleKey = RoleOf(q)
              /\ twin.state.players[q].roleKey = RoleOf(p)
        /\ Len(outbox[c]) = 1 /\ outbox[c][1].state.status = "assigned"
        /\ Len(outbox[d]) = 1 /\ twin.outbox[d] = outbox[d]

====
